---- MODULE Spec2Model ----
(***************************************************************************)
(* The one-shot batch processor of src/data/template.py: main() parses a   *)
(* configuration, loads the libraries, submits every task of the stream to *)
(* a ThreadPoolExecutor, waits, prints a summary and exits.  The worker    *)
(* threads run process_task concurrently on one shared metrics dict, which *)
(* is a plain dict without a lock: every `metrics[k] += v` is a read       *)
(* followed by a write, and the model keeps the two apart.                 *)
(***************************************************************************)
EXTENDS Integers, Sequences, FiniteSets, TLC

\* ------------------------------------------------------------------ bounds
MaxTasks == 3
MaxThreads == 2

\* ------------------------------------------------------------ input space
\* Python's None and a raised exception, apart from every value compute returns
None == 0
Raise == -1
NoCode == -1

\* Names the registry can be asked for; only "echo" is an importable module.
Importable == {"echo"}
LibraryLists == {<<"echo">>, <<"echo", "echo">>, <<"echo", "broken">>}

\* What a task's params can be: the library it names and whether the
\* library's compute raises on them (FakeLib of test_process_task.py).
TaskKinds ==
    { [lib_name |-> "echo", fail |-> FALSE],
      [lib_name |-> "echo", fail |-> TRUE],
      [lib_name |-> "missing", fail |-> FALSE] }

Pow2(n) == IF n <= 1 THEN 1 ELSE IF n = 2 THEN 2 ELSE IF n = 3 THEN 4 ELSE IF n = 4 THEN 8 ELSE 16

\* TaskConfig: the i-th task of a list carries x = i and a distinct
\* expected_value; its id is i, or 1 again (a duplicate id).
TaskConfig(i, id, k) ==
    [id |-> id, lib_name |-> k.lib_name, fail |-> k.fail, x |-> i,
     expected_value |-> Pow2(i)]

TaskLists ==
    UNION { { [i \in 1..m |-> TaskConfig(i, ids[i], kinds[i])] :
                ids \in {f \in [1..m -> 1..MaxTasks] : \A i \in 1..m : f[i] \in {i, 1}},
                kinds \in [1..m -> TaskKinds] } : m \in 0..MaxTasks }

\* task.params.get('lib_name') of a task whose params have no lib_name
NoLibName == "<None>"

\* The batch of three tasks with the one library echo: t1 with params {x: 1},
\* t2 with params {x: 2}, t3 with params {lib_name: "missing"}.
ScenarioTasks ==
    << TaskConfig(1, 1, [lib_name |-> NoLibName, fail |-> FALSE]),
       TaskConfig(2, 2, [lib_name |-> NoLibName, fail |-> FALSE]),
       TaskConfig(3, 3, [lib_name |-> "missing", fail |-> FALSE]) >>

Configs ==
    [threads : 1..MaxThreads, libraries : LibraryLists, tasks : TaskLists]
      \cup [threads : 1..MaxThreads, libraries : {<<"echo">>}, tasks : {ScenarioTasks}]

Range(s) == {s[i] : i \in DOMAIN s}

\* (a validator that forgets the task ids)
check_unique_libraries_only(libraries, tasks) ==
    Cardinality(Range(libraries)) = Len(libraries)

\* AppConfig.check_unique_libraries_and_tasks
check_unique_libraries_and_tasks(libraries, tasks) ==
    /\ Cardinality(Range(libraries)) = Len(libraries)
    /\ Cardinality({tasks[i].id : i \in DOMAIN tasks}) = Len(tasks)

\* (a loader that swallows the ImportError)
load_anything(name) == TRUE

\* load_precompiled_library: the import succeeds or raises ImportError
load_precompiled_library(name) == name \in Importable

\* metrics = {...} of main()
NewMetrics ==
    [task_count |-> 0, success_count |-> 0, failure_count |-> 0,
     durations |-> <<>>, business_value |-> 0]

\* metrics.get('generator_errors', 0)
GeneratorErrors(m) ==
    IF "generator_errors" \in DOMAIN m THEN m.generator_errors ELSE 0

NotSignalled == [submitted |-> -1, busy |-> FALSE, queued |-> 0, again |-> FALSE]

\* ------------------------------------------------------------------ state
VARIABLES
    cfg,             \* the configuration file's content
    pc,              \* where main() is
    shutdown_event,  \* the Event
    libs,            \* the registry main() builds
    metrics,         \* the shared dict
    gen_pos,         \* how many tasks the generator has yielded
    task,            \* the loop variable of `for task in gen`
    futures,         \* the list `futures`, with each future's state
    not_done,        \* the second set wait() returned
    raised,          \* an exception is propagating out of the with block
    summary,         \* the summary lines logged
    cleanups,        \* how many times cleanup() ran
    exit_code,       \* the code of the SystemExit in flight / reported
    at_signal        \* history: how many tasks were submitted, and whether
                     \* one was running, when the flag was first set; how
                     \* many of them had not started, if main() was in
                     \* wait() then; whether a signal came again later

\* The repository's two other programs, each run on its own: the CSV
\* command line of app.py and DeviceTester.compute_first_failure.
VARIABLES
    app_pc,               \* where app.py's main() is
    VERSION_RETRY_COUNT,  \* from the environment
    CSV_RETRY_COUNT,      \* from the environment
    fname,                \* the filename read at the prompt
    version,              \* what fetch_latest_version returned
    csv_text,             \* the cached or fetched payload
    cache,                \* the Redis keys csv:{version}:{fname} and their values
    attempts,             \* the outcomes of the upstream attempts of the fetch in progress
    ret,                  \* history: how the last fetch call ended
    cache_before          \* history: the cache when set_cached_csv was entered

appVars == <<app_pc, VERSION_RETRY_COUNT, CSV_RETRY_COUNT, fname, version, csv_text,
             cache, attempts, ret, cache_before>>

VARIABLES
    mask,           \* the within-bounds mask: its shape and its rows
    test_names,     \* the names of its columns
    first_failure   \* what compute_first_failure returned

devVars == <<mask, test_names, first_failure>>

\* a str() of None, and the value of a name not yet bound
NoValue == "<None>"

EmptyCache == [k \in {} |-> NoValue]
NoCall == [fn |-> NoValue, kind |-> NoValue, outcomes |-> <<>>, retry |-> 0, value |-> NoValue]
NotComputed == [names |-> <<>>, indices |-> <<>>, done |-> FALSE]

\* app.py is not running
AppIdle ==
    /\ app_pc = "off"
    /\ VERSION_RETRY_COUNT = 0 /\ CSV_RETRY_COUNT = 0
    /\ fname = "" /\ version = NoValue /\ csv_text = NoValue
    /\ cache = EmptyCache /\ cache_before = EmptyCache
    /\ attempts = <<>> /\ ret = NoCall

\* compute_first_failure is not called
DevIdle ==
    /\ mask = [shape |-> <<0, 0>>, rows |-> <<>>]
    /\ test_names = <<>>
    /\ first_failure = NotComputed

vars == <<cfg, pc, shutdown_event, libs, metrics, gen_pos, task, futures,
          not_done, raised, summary, cleanups, exit_code, at_signal,
          appVars, devVars>>

mainVars == <<pc, libs, gen_pos, task, not_done, raised, summary, cleanups, exit_code>>

Init ==
    /\ cfg \in Configs
    /\ pc = "parse"
    /\ shutdown_event = FALSE
    /\ libs = {}
    /\ metrics = NewMetrics
    /\ gen_pos = 0
    /\ task = 0
    /\ futures = <<>>
    /\ not_done = {}
    /\ raised = FALSE
    /\ summary = <<>>
    /\ cleanups = 0
    /\ exit_code = NoCode
    /\ at_signal = NotSignalled
    /\ AppIdle
    /\ DevIdle

\* ---------------------------------------------------------- main thread
\* (a handler that clears the flag when it is set)
signal_toggles ==
    /\ pc \notin {"atexit", "exited"}
    /\ shutdown_event' = ~shutdown_event
    /\ at_signal' = [at_signal EXCEPT !.again = TRUE]
    /\ UNCHANGED <<appVars, devVars, cfg, mainVars, metrics, futures>>

\* signal_handler: shutdown_event.set().  Signals are delivered to the main
\* thread between two of its steps, until line 193 has read the flag.
signal_handler ==
    /\ pc \notin {"atexit", "exited"}
    /\ shutdown_event' = TRUE
    /\ at_signal' = IF shutdown_event THEN [at_signal EXCEPT !.again = TRUE]
                    ELSE [submitted |-> Len(futures),
                          busy |-> \E i \in DOMAIN futures : futures[i].state = "running",
                          queued |-> IF pc = "wait"
                                        THEN Cardinality({i \in DOMAIN futures :
                                                 futures[i].state = "pending"})
                                        ELSE 0,
                          again |-> FALSE]
    /\ UNCHANGED <<appVars, devVars, cfg, mainVars, metrics, futures>>

\* main(), lines 143-148: AppConfig.parse_obj; a ValidationError is logged
\* and sys.exit(1) leaves main() before the try block.
ParseConfig ==
    /\ pc = "parse"
    /\ IF check_unique_libraries_and_tasks(cfg.libraries, cfg.tasks)
          THEN /\ pc' = "load"
               /\ UNCHANGED exit_code
          ELSE /\ pc' = "atexit"
               /\ exit_code' = 1
    /\ UNCHANGED <<appVars, devVars, cfg, shutdown_event, at_signal, libs, metrics, gen_pos, task, futures,
                   not_done, raised, summary, cleanups>>

\* main(), lines 150-167: the registry, the metrics dict, the generator and
\* the pool.  An ImportError is not caught: the interpreter ends with
\* status 1 after the atexit handlers.
LoadLibraries ==
    /\ pc = "load"
    /\ IF \A i \in DOMAIN cfg.libraries : load_precompiled_library(cfg.libraries[i])
          THEN /\ libs' = Range(cfg.libraries)
               /\ metrics' = NewMetrics
               /\ pc' = "for"
               /\ UNCHANGED exit_code
          ELSE /\ pc' = "atexit"
               /\ exit_code' = 1
               /\ UNCHANGED <<libs, metrics>>
    /\ UNCHANGED <<appVars, devVars, cfg, shutdown_event, at_signal, gen_pos, task, futures, not_done,
                   raised, summary, cleanups>>

\* (a __next__ without the test of lines 55-56)
NextOutcomesIgnoringFlag ==
    IF gen_pos = Len(cfg.tasks) THEN {"stop", "error"} ELSE {"item", "error"}

\* The outcomes of GeneratorErrorHandler.__next__ (lines 54-66) in the state
\* it is called in: "stop" (StopIteration), "item", or "error" (the wrapped
\* generator raised; a generator may raise instead of yielding any item).
NextOutcomes ==
    IF shutdown_event THEN {"stop"}
    ELSE IF gen_pos = Len(cfg.tasks) THEN {"stop", "error"}
    ELSE {"item", "error"}

\* (a handler that re-raises without counting)
CountNothing(m) == m

\* lines 63-65: metrics.setdefault('generator_errors', 0), then += 1
CountGeneratorError(m) ==
    [k \in DOMAIN m \cup {"generator_errors"} |->
        IF k = "generator_errors" THEN GeneratorErrors(m) + 1 ELSE m[k]]

\* `for task in gen`, line 169
ForNext ==
    /\ pc = "for"
    /\ \E o \in NextOutcomes :
         \/ /\ o = "stop"
            /\ pc' = "wait"
            /\ UNCHANGED <<metrics, gen_pos, task, raised>>
         \/ /\ o = "item"
            /\ gen_pos' = gen_pos + 1
            /\ task' = gen_pos + 1
            /\ pc' = "check"
            /\ UNCHANGED <<metrics, raised>>
         \/ /\ o = "error"
            /\ metrics' = CountGeneratorError(metrics)
            /\ gen_pos' = Len(cfg.tasks)
            /\ raised' = TRUE
            /\ pc' = "with_exit"
            /\ UNCHANGED task
    /\ UNCHANGED <<appVars, devVars, cfg, shutdown_event, at_signal, libs, futures, not_done,
                   summary, cleanups, exit_code>>

\* executor.submit: a new pending future at the end of the work queue
\* The future holds the state of its process_task invocation too: pc is
\* where the pool thread running it is, reg the value it has read and not
\* yet written back, value is compute's result.  entry, alone and updates
\* are history: the metrics when the invocation began, whether no other
\* invocation has written the metrics since, and how many times the
\* invocation has counted itself in task_count.
NewFuture(t) ==
    [task |-> t, state |-> "pending", result |-> <<>>, exception |-> FALSE,
     pc |-> "queued", reg |-> 0, value |-> None,
     entry |-> NewMetrics, alone |-> TRUE, updates |-> 0]

\* (a loop body without the test of line 170)
LoopBodyWithoutCheck ==
    /\ pc = "check"
    /\ futures' = Append(futures, NewFuture(task))
    /\ pc' = "for"
    /\ UNCHANGED <<appVars, devVars, cfg, shutdown_event, at_signal, libs, metrics, gen_pos, task, not_done,
                   raised, summary, cleanups, exit_code>>

\* the loop body, lines 170-172
LoopBody ==
    /\ pc = "check"
    /\ IF shutdown_event
          THEN /\ pc' = "wait"
               /\ UNCHANGED futures
          ELSE /\ futures' = Append(futures, NewFuture(task))
               /\ pc' = "for"
    /\ UNCHANGED <<appVars, devVars, cfg, shutdown_event, at_signal, libs, metrics, gen_pos, task, not_done,
                   raised, summary, cleanups, exit_code>>

\* (a future that counts as done as soon as it runs)
DoneOnceStarted(f) == f.state \in {"running", "finished", "cancelled"}

\* Future.done(): the call has returned or raised, or the future was cancelled
Finished(f) == f.state \in {"finished", "cancelled"}

\* (a wait that returns only once some future has finished)
WaitNeedsAFuture ==
    \E i \in DOMAIN futures : futures[i].state \in {"finished", "cancelled"}

\* wait(futures, return_when=FIRST_EXCEPTION), line 174: returns once a
\* future has finished by raising, or once every future has finished.
WaitReturns ==
    \/ \E i \in DOMAIN futures : futures[i].state = "finished" /\ futures[i].exception
    \/ \A i \in DOMAIN futures : Finished(futures[i])

Wait ==
    /\ pc = "wait"
    /\ WaitReturns
    /\ not_done' = {i \in DOMAIN futures : ~Finished(futures[i])}
    /\ pc' = "after_wait"
    /\ UNCHANGED <<appVars, devVars, cfg, shutdown_event, at_signal, libs, metrics, gen_pos, task, futures,
                   raised, summary, cleanups, exit_code>>

\* Future.cancel(): only a pending future is cancelled
Cancel(f) == IF f.state = "pending" THEN [f EXCEPT !.state = "cancelled"] ELSE f

\* lines 175-178
CancelRemaining ==
    /\ pc = "after_wait"
    /\ futures' = IF shutdown_event
                     THEN [i \in DOMAIN futures |->
                             IF i \in not_done THEN Cancel(futures[i]) ELSE futures[i]]
                     ELSE futures
    /\ pc' = "with_exit"
    /\ UNCHANGED <<appVars, devVars, cfg, shutdown_event, at_signal, libs, metrics, gen_pos, task, not_done,
                   raised, summary, cleanups, exit_code>>

\* (a pool left with shutdown(wait=False))
PoolNotJoined == TRUE

\* ThreadPoolExecutor.__exit__ is shutdown(wait=True): it returns when the
\* queue is drained and every worker thread has ended.
PoolJoined ==
    \A i \in DOMAIN futures : Finished(futures[i])

\* leaving the with block, line 167, normally or with the exception
WithExit ==
    /\ pc = "with_exit"
    /\ PoolJoined
    /\ pc' = IF raised THEN "except" ELSE "finally"
    /\ UNCHANGED <<appVars, devVars, cfg, shutdown_event, at_signal, libs, metrics, gen_pos, task, futures,
                   not_done, raised, summary, cleanups, exit_code>>

\* (a summary placed after the try statement instead of in its finally)
ExceptSkipsFinally ==
    /\ pc = "except"
    /\ exit_code' = 1
    /\ pc' = "atexit"
    /\ UNCHANGED <<appVars, devVars, cfg, shutdown_event, at_signal, libs, metrics, gen_pos, task,
                   futures, not_done, raised, summary, cleanups>>

\* lines 179-181: sys.exit(1) raises SystemExit(1); the finally block runs
Except ==
    /\ pc = "except"
    /\ exit_code' = 1
    /\ pc' = "finally"
    /\ UNCHANGED <<appVars, devVars, cfg, shutdown_event, at_signal, libs, metrics, gen_pos, task, futures,
                   not_done, raised, summary, cleanups>>

Sum(s) == IF s = <<>> THEN 0 ELSE LET R[i \in 0..Len(s)] == IF i = 0 THEN 0 ELSE R[i-1] + s[i] IN R[Len(s)]

\* lines 184-191: the summary line, with the locals total, succ and fail
SummaryLine(m) ==
    [total |-> m.task_count, succ |-> m.success_count, fail |-> m.failure_count,
     avg_time |-> IF m.success_count # 0
                     THEN <<Sum(m.durations), m.success_count>>
                     ELSE <<0, 1>>,
     value |-> m.business_value,
     generator_errors |-> GeneratorErrors(m)]

Summary ==
    /\ pc = "finally"
    /\ summary' = Append(summary, SummaryLine(metrics))
    /\ pc' = "cleanup"
    /\ UNCHANGED <<appVars, devVars, cfg, shutdown_event, at_signal, libs, metrics, gen_pos, task, futures,
                   not_done, raised, cleanups, exit_code>>

\* line 192: cleanup()
Cleanup ==
    /\ pc = "cleanup"
    /\ cleanups' = cleanups + 1
    /\ pc' = "sysexit"
    /\ UNCHANGED <<appVars, devVars, cfg, shutdown_event, at_signal, libs, metrics, gen_pos, task, futures,
                   not_done, raised, summary, exit_code>>

\* line 193: sys.exit(1 if fail or shutdown_event.is_set() else 0); raised in
\* the finally block, it replaces a SystemExit already in flight.
ExitStatus(fail, shutdown) == IF fail # 0 \/ shutdown THEN 1 ELSE 0

SysExit ==
    /\ pc = "sysexit"
    /\ exit_code' = ExitStatus(summary[Len(summary)].fail, shutdown_event)
    /\ pc' = "atexit"
    /\ UNCHANGED <<appVars, devVars, cfg, shutdown_event, at_signal, libs, metrics, gen_pos, task, futures,
                   not_done, raised, summary, cleanups>>

\* atexit.register(cleanup), line 134: the interpreter runs cleanup() on
\* its way out and the process reports exit_code.
AtExit ==
    /\ pc = "atexit"
    /\ cleanups' = cleanups + 1
    /\ pc' = "exited"
    /\ UNCHANGED <<appVars, devVars, cfg, shutdown_event, at_signal, libs, metrics, gen_pos, task, futures,
                   not_done, raised, summary, exit_code>>

\* ----------------------------------------------------------- pool threads
MaxDuration == 1

Running == {i \in DOMAIN futures : futures[i].state = "running"}

\* the work queue is first in, first out
NextPending ==
    CHOOSE i \in DOMAIN futures :
        /\ futures[i].state = "pending"
        /\ \A j \in 1..(i-1) : futures[j].state # "pending"

\* (a pool that starts a thread for every work item)
AlwaysFree == TRUE

\* the pool has max_workers=cfg.threads threads, each running one work item
FreeThread == Cardinality(Running) < cfg.threads

\* (a pool whose threads take no work item once the flag is set)
TakeUnlessShutdown ==
    /\ ~shutdown_event
    /\ \E i \in DOMAIN futures : futures[i].state = "pending"
    /\ FreeThread
    /\ futures' = [futures EXCEPT ![NextPending] =
                     [@ EXCEPT !.state = "running", !.pc = "L104", !.entry = metrics]]
    /\ UNCHANGED <<appVars, devVars, cfg, shutdown_event, at_signal, mainVars, metrics>>

\* a free pool thread takes the next work item and calls process_task
\* (trace's wrapper only logs)
Take ==
    /\ \E i \in DOMAIN futures : futures[i].state = "pending"
    /\ FreeThread
    /\ futures' = [futures EXCEPT ![NextPending] =
                     [@ EXCEPT !.state = "running", !.pc = "L104", !.entry = metrics]]
    /\ UNCHANGED <<appVars, devVars, cfg, shutdown_event, at_signal, mainVars, metrics>>

TaskOf(i) == cfg.tasks[futures[i].task]

\* lib.compute(**task.params): the value, or Raise
compute(t) == IF t.fail THEN Raise ELSE t.x

\* (a process_task that falls back on the registered library when the
\* task names none)
AttemptWithDefault(t, registry) ==
    IF t.lib_name = NoLibName /\ registry # {} THEN compute(t)
    ELSE IF t.lib_name \notin registry THEN Raise ELSE compute(t)

\* process_task, lines 104-107: Raise when the library is not in the
\* registry or compute raises, compute's result otherwise
Attempt(t, registry) ==
    IF t.lib_name \notin registry THEN Raise ELSE compute(t)

\* (a process_task without its except clause)
OnExceptionEscapes == "escape"

\* where an exception raised in the try block of process_task goes: the
\* `except Exception` clause of line 115
OnException == "L116r"

Run(i) ==
    /\ futures[i].pc = "L104"
    /\ LET r == Attempt(TaskOf(i), libs) IN
         futures' = [futures EXCEPT ![i].pc = IF r = Raise THEN OnException ELSE "L109r",
                                    ![i].value = IF r = Raise THEN None ELSE r]
    /\ UNCHANGED <<appVars, devVars, cfg, shutdown_event, at_signal, mainVars, metrics>>

\* The statements of process_task that update the metrics, in order: each
\* `metrics[key] += delta` is a read step and a write step.
ReadAt ==
    [L109r |-> "task_count", L110r |-> "success_count", L112r |-> "business_value",
     L116r |-> "task_count", L117r |-> "failure_count"]
WriteAt ==
    [L109w |-> "task_count", L110w |-> "success_count", L112w |-> "business_value",
     L116w |-> "task_count", L117w |-> "failure_count"]
Follows ==
    [L109r |-> "L109w", L109w |-> "L110r", L110r |-> "L110w", L110w |-> "L111",
     L111 |-> "L112r", L112r |-> "L112w", L112w |-> "L114",
     L116r |-> "L116w", L116w |-> "L117r", L117r |-> "L117w", L117w |-> "L119"]

\* (a process_task that adds 1 to every field it updates)
DeltaAlwaysOne(at, t) == 1

\* the right-hand side of the `+=` at a write step
Delta(at, t) == IF at = "L112w" THEN t.expected_value ELSE 1

\* invocation i has written the metrics: the others running are not alone
\* any more (and their entry is of no use)
Disturbed(fs, i) ==
    [j \in DOMAIN fs |-> IF j # i /\ fs[j].state = "running"
                            THEN [fs[j] EXCEPT !.alone = FALSE, !.entry = NewMetrics]
                            ELSE fs[j]]

Read(i) ==
    /\ futures[i].pc \in DOMAIN ReadAt
    /\ futures' = [futures EXCEPT ![i].reg = metrics[ReadAt[futures[i].pc]],
                                  ![i].pc = Follows[futures[i].pc]]
    /\ UNCHANGED <<appVars, devVars, cfg, shutdown_event, at_signal, mainVars, metrics>>

Write(i) ==
    /\ futures[i].pc \in DOMAIN WriteAt
    /\ metrics' = [metrics EXCEPT ![WriteAt[futures[i].pc]] =
                     futures[i].reg + Delta(futures[i].pc, TaskOf(i))]
    /\ futures' = Disturbed(
                    [futures EXCEPT
                       ![i].pc = Follows[futures[i].pc],
                       ![i].updates = IF WriteAt[futures[i].pc] = "task_count"
                                         THEN @ + 1 ELSE @], i)
    /\ UNCHANGED <<appVars, devVars, cfg, shutdown_event, at_signal, mainVars>>

\* line 111: metrics['durations'].append(duration), one call
AppendDuration(i) ==
    /\ futures[i].pc = "L111"
    /\ \E duration \in 1..MaxDuration :
         metrics' = [metrics EXCEPT !.durations = Append(@, duration)]
    /\ futures' = Disturbed([futures EXCEPT ![i].pc = Follows[futures[i].pc]], i)
    /\ UNCHANGED <<appVars, devVars, cfg, shutdown_event, at_signal, mainVars>>

\* lines 114 and 119: return task.id, result / return task.id, None.  The
\* pool thread stores what process_task returned in the future, or the
\* exception that left it (_WorkItem.run of concurrent.futures).
Return(i) ==
    /\ futures[i].pc \in {"L114", "L119", "escape"}
    /\ futures' = [futures EXCEPT
                     ![i].state = "finished",
                     ![i].pc = "returned",
                     ![i].entry = NewMetrics,
                     ![i].exception = (futures[i].pc = "escape"),
                     ![i].result = IF futures[i].pc = "escape" THEN <<>>
                                   ELSE <<TaskOf(i).id, futures[i].value>>]
    /\ UNCHANGED <<appVars, devVars, cfg, shutdown_event, at_signal, mainVars, metrics>>

Next ==
    \/ signal_handler
    \/ ParseConfig
    \/ LoadLibraries
    \/ ForNext
    \/ LoopBody
    \/ Wait
    \/ CancelRemaining
    \/ WithExit
    \/ Except
    \/ Summary
    \/ Cleanup
    \/ SysExit
    \/ AtExit
    \/ Take
    \/ \E i \in DOMAIN futures : Run(i)
    \/ \E i \in DOMAIN futures : Read(i)
    \/ \E i \in DOMAIN futures : Write(i)
    \/ \E i \in DOMAIN futures : AppendDuration(i)
    \/ \E i \in DOMAIN futures : Return(i)

Spec == Init /\ [][Next]_vars

\* the steps of the main thread, signal handler apart
MainStep ==
    \/ ParseConfig \/ LoadLibraries \/ ForNext \/ LoopBody \/ Wait
    \/ CancelRemaining \/ WithExit \/ Except \/ Summary \/ Cleanup
    \/ SysExit \/ AtExit

\* the steps of the pool threads
PoolStep ==
    \/ Take
    \/ \E i \in DOMAIN futures :
          Run(i) \/ Read(i) \/ Write(i) \/ AppendDuration(i) \/ Return(i)

\* The interpreter keeps scheduling the main thread and the pool threads
\* (the GIL is handed over at every switch interval), and compute returns;
\* nothing is assumed about signals.
\* The runs checked for termination: those whose tasks and threads together
\* are at most MaxLoad.
MaxLoad == 3

InitFair == Init /\ Len(cfg.tasks) + cfg.threads <= MaxLoad

FairSpec == InitFair /\ [][Next]_vars /\ WF_vars(MainStep) /\ WF_vars(PoolStep)

\* ================================================================ app.py
MaxRetry == 2

Filenames == {"a", "b"}
Versions == {"v1", "v2"}
Payloads == {"x", "y"}

\* template.py's main() is not running
BatchIdle ==
    /\ cfg = [threads |-> 1, libraries |-> <<>>, tasks |-> <<>>]
    /\ pc = "off"
    /\ shutdown_event = FALSE
    /\ libs = {}
    /\ metrics = NewMetrics
    /\ gen_pos = 0
    /\ task = 0
    /\ futures = <<>>
    /\ not_done = {}
    /\ raised = FALSE
    /\ summary = <<>>
    /\ cleanups = 0
    /\ exit_code = NoCode
    /\ at_signal = NotSignalled

batchVars == <<cfg, pc, shutdown_event, libs, metrics, gen_pos, task, futures,
               not_done, raised, summary, cleanups, exit_code, at_signal>>

\* the module is loaded with the retry counts of the environment, Redis is
\* empty, and main() is at its first prompt
AppInit ==
    /\ BatchIdle
    /\ DevIdle
    /\ app_pc = "prompt"
    /\ VERSION_RETRY_COUNT \in 0..MaxRetry
    /\ CSV_RETRY_COUNT \in 0..MaxRetry
    /\ fname = ""
    /\ version = NoValue
    /\ csv_text = NoValue
    /\ cache = EmptyCache
    /\ cache_before = EmptyCache
    /\ attempts = <<>>
    /\ ret = NoCall

\* the key f"csv:{version}:{fname}"
Key(f, v) == <<v, f>>

\* lines 116-118: the prompt; an empty line prompts again
PromptFilename ==
    /\ app_pc = "prompt"
    /\ \E f \in Filenames \cup {""} :
         /\ fname' = f
         /\ app_pc' = IF f = "" THEN "prompt" ELSE "version"
    /\ attempts' = <<>>
    /\ UNCHANGED <<batchVars, devVars, VERSION_RETRY_COUNT, CSV_RETRY_COUNT, version,
                   csv_text, cache, ret, cache_before>>

\* lines 150-151: end of input or Ctrl-C at the prompt
EndOfInput ==
    /\ app_pc = "prompt"
    /\ app_pc' = "exited"
    /\ UNCHANGED <<batchVars, devVars, VERSION_RETRY_COUNT, CSV_RETRY_COUNT, fname,
                   version, csv_text, cache, attempts, ret, cache_before>>

\* how a fetch call that made the attempts `outcomes` under the retry count
\* n ended
Returned(fn, n, outcomes, kind, value) ==
    [fn |-> fn, kind |-> kind, outcomes |-> outcomes, retry |-> n, value |-> value]

\* fetch_latest_version, lines 63-72, one pass of its loop per step.  The
\* RuntimeError of line 71 is no httpx.HTTPError: the except clause of line
\* 122 and that of line 150 let it through, and main() ends with it.
FetchLatestVersion ==
    /\ app_pc = "version"
    /\ IF Len(attempts) >= VERSION_RETRY_COUNT
          THEN \* range(1, VERSION_RETRY_COUNT + 1) is over: the function
               \* ends without a return statement
               /\ version' = NoValue
               /\ ret' = Returned("version", VERSION_RETRY_COUNT, attempts, "None", NoValue)
               /\ app_pc' = "lookup"
               /\ UNCHANGED attempts
          ELSE \E ok \in BOOLEAN, v \in Versions :
                 /\ attempts' = Append(attempts, ok)
                 /\ IF ok
                       THEN /\ version' = v
                            /\ ret' = Returned("version", VERSION_RETRY_COUNT, attempts', "value", v)
                            /\ app_pc' = "lookup"
                       ELSE IF Len(attempts') = VERSION_RETRY_COUNT
                       THEN /\ ret' = Returned("version", VERSION_RETRY_COUNT, attempts',
                                               "RuntimeError", NoValue)
                            /\ app_pc' = "crashed"
                            /\ UNCHANGED version
                       ELSE UNCHANGED <<version, ret, app_pc>>
    /\ UNCHANGED <<batchVars, devVars, VERSION_RETRY_COUNT, CSV_RETRY_COUNT, fname,
                   csv_text, cache, cache_before>>

\* lines 127-132 with get_cached_csv, lines 37-39
GetCachedCsv ==
    /\ app_pc = "lookup"
    /\ IF Key(fname, version) \in DOMAIN cache
          THEN /\ csv_text' = cache[Key(fname, version)]
               /\ app_pc' = "process"
          ELSE /\ app_pc' = "csv"
               /\ UNCHANGED csv_text
    /\ attempts' = <<>>
    /\ UNCHANGED <<batchVars, devVars, VERSION_RETRY_COUNT, CSV_RETRY_COUNT, fname,
                   version, cache, ret, cache_before>>

\* fetch_csv_payload, lines 82-91, one pass of its loop per step
FetchCsvPayload ==
    /\ app_pc = "csv"
    /\ IF Len(attempts) >= CSV_RETRY_COUNT
          THEN /\ csv_text' = NoValue
               /\ ret' = Returned("csv", CSV_RETRY_COUNT, attempts, "None", NoValue)
               /\ app_pc' = "store"
               /\ UNCHANGED attempts
          ELSE \E ok \in BOOLEAN, t \in Payloads :
                 /\ attempts' = Append(attempts, ok)
                 /\ IF ok
                       THEN /\ csv_text' = t
                            /\ ret' = Returned("csv", CSV_RETRY_COUNT, attempts', "value", t)
                            /\ app_pc' = "store"
                       ELSE IF Len(attempts') = CSV_RETRY_COUNT
                       THEN /\ ret' = Returned("csv", CSV_RETRY_COUNT, attempts',
                                               "RuntimeError", NoValue)
                            /\ app_pc' = "crashed"
                            /\ UNCHANGED csv_text
                       ELSE UNCHANGED <<csv_text, ret, app_pc>>
    /\ UNCHANGED <<batchVars, devVars, VERSION_RETRY_COUNT, CSV_RETRY_COUNT, fname,
                   version, cache, cache_before>>

\* lines 44-45: delete every key that matches csv:{version}:*
Evict(c, v) == [k \in {k \in DOMAIN c : k[1] # v} |-> c[k]]

\* line 48: r.set(key, csv_text)
Set(c, k, text) == [j \in DOMAIN c \cup {k} |-> IF j = k THEN text ELSE c[j]]

\* set_cached_csv, lines 41-48
set_cached_csv(c, f, v, text) == Set(Evict(c, v), Key(f, v), text)

\* line 138; redis refuses a value of None (DataError) after the keys were
\* deleted
SetCachedCsv ==
    /\ app_pc = "store"
    /\ cache_before' = cache
    /\ IF csv_text = NoValue
          THEN /\ cache' = Evict(cache, version)
               /\ app_pc' = "crashed"
          ELSE /\ cache' = set_cached_csv(cache, fname, version, csv_text)
               /\ app_pc' = "cached"
    /\ UNCHANGED <<batchVars, devVars, VERSION_RETRY_COUNT, CSV_RETRY_COUNT, fname,
                   version, csv_text, attempts, ret>>

\* lines 139-148: the result is printed and the loop prompts again
ProcessCsv ==
    /\ app_pc \in {"cached", "process"}
    /\ app_pc' = "prompt"
    /\ UNCHANGED <<batchVars, devVars, VERSION_RETRY_COUNT, CSV_RETRY_COUNT, fname,
                   version, csv_text, cache, attempts, ret, cache_before>>

AppNext ==
    \/ PromptFilename
    \/ EndOfInput
    \/ FetchLatestVersion
    \/ GetCachedCsv
    \/ FetchCsvPayload
    \/ SetCachedCsv
    \/ ProcessCsv

AppSpec == AppInit /\ [][AppNext]_vars

\* ====================================================== device_tester.py
MaxDevices == 2
MaxTests == 3

\* column names, distinct as pandas keeps them
TestNames == <<"a", "b", "c", "d", "e">>

\* a mask of any shape up to MaxDevices x MaxTests, with the names of its
\* columns
DevInit ==
    /\ BatchIdle
    /\ AppIdle
    /\ \E nd \in 0..MaxDevices, nt \in 0..MaxTests :
         /\ mask \in [shape : {<<nd, nt>>}, rows : [1..nd -> [1..nt -> BOOLEAN]]]
         /\ test_names = SubSeq(TestNames, 1, nt)
    /\ first_failure = NotComputed

\* ~row
Not(row) == [j \in DOMAIN row |-> ~row[j]]

\* row.any()
any(row) == \E j \in DOMAIN row : row[j]

\* np.argmax on a row of booleans: the index, from 0, of the first entry
\* equal to the row's maximum
argmax(row) ==
    LET top == any(row)
    IN (CHOOSE j \in DOMAIN row :
            /\ row[j] = top
            /\ \A k \in DOMAIN row : k < j => row[k] # top) - 1

\* (an index left as argmax returns it)
first_index_of_argmax(outside) == argmax(outside)

\* lines 106-108 for one row: argmax, then -1 where no entry is True
first_index(outside) ==
    IF ~any(outside) THEN -1 ELSE argmax(outside)

\* DeviceTester.compute_first_failure
compute_first_failure(m, names) ==
    LET num_devices == m.shape[1]
        num_tests == m.shape[2]
    IN IF num_tests = 0
          THEN [names |-> [i \in 1..num_devices |-> NoValue],
                indices |-> [i \in 1..num_devices |-> -1],
                done |-> TRUE]
          ELSE LET first_indices == [i \in 1..num_devices |-> first_index(Not(m.rows[i]))]
               IN [names |-> [i \in 1..num_devices |->
                                IF first_indices[i] >= 0
                                   THEN names[first_indices[i] + 1]
                                   ELSE NoValue],
                   indices |-> first_indices,
                   done |-> TRUE]

ComputeFirstFailure ==
    /\ ~first_failure.done
    /\ first_failure' = compute_first_failure(mask, test_names)
    /\ UNCHANGED <<batchVars, appVars, mask, test_names>>

DevNext == ComputeFirstFailure

DevSpec == DevInit /\ [][DevNext]_vars

\* ================================================================ claims
Exited == pc = "exited"

\* the run entered the try block of main() and logged its summary
Summarised == Len(summary) = 1

\* the task's library resolves and its compute call succeeds
Succeeds(t) == Attempt(t, libs) # Raise

Invocations == {i \in DOMAIN futures : futures[i].state = "finished"}
Succeeded == {i \in Invocations : Succeeds(TaskOf(i))}
Failed == {i \in Invocations : ~Succeeds(TaskOf(i))}

RECURSIVE ValueOf(_)
ValueOf(S) ==
    IF S = {} THEN 0
    ELSE LET i == CHOOSE j \in S : TRUE
         IN TaskOf(i).expected_value + ValueOf(S \ {i})

\* ---- C1
\* the parts of C1
C1_ZeroOnlyIfClean ==
    Exited /\ exit_code = 0 => metrics.failure_count = 0 /\ ~shutdown_event
C1_NonZeroOnFailureOrShutdown ==
    Exited /\ (metrics.failure_count > 0 \/ shutdown_event) => exit_code # 0
C1_NonZeroOnFatal ==
    Exited /\ raised => exit_code # 0
C1_ZeroWhenClean ==
    Exited /\ Summarised /\ Failed = {} /\ ~shutdown_event /\ ~raised => exit_code = 0

\* C1: the exit status is zero only if no task failed and the shutdown flag
\* is not set; it is non-zero whenever failure_count > 0, or shutdown was
\* requested, or a fatal error occurred during processing; a run whose tasks
\* all succeed, without shutdown and without fatal error, exits with zero.
C1_ExitStatus ==
    /\ C1_ZeroOnlyIfClean
    /\ C1_NonZeroOnFailureOrShutdown
    /\ C1_NonZeroOnFatal
    /\ C1_ZeroWhenClean

\* ---- C2
\* C2: when the shutdown flag was set after exactly N tasks had been
\* submitted, the final summary has success + failure = task_count = N, no
\* other task was counted, and the exit status is non-zero.
C2_CancellationSafety ==
    Exited /\ Summarised /\ at_signal.submitted >= 0 =>
        /\ summary[1].succ + summary[1].fail = at_signal.submitted
        /\ summary[1].total = at_signal.submitted
        /\ Len(futures) = at_signal.submitted
        /\ exit_code # 0

\* C2 without concurrent invocations (threads = 1)
C2_SingleThread == cfg.threads = 1 => C2_CancellationSafety

\* ---- C3
\* C3: after all workers have finished, task_count is the number of
\* process_task invocations, success_count the number that succeeded,
\* failure_count the number that failed, business_value the sum of
\* expected_value over the succeeded tasks, and durations has one sample per
\* succeeded task, under every interleaving.
C3_NoLostUpdate ==
    pc = "finally" =>
        /\ metrics.task_count = Cardinality(Invocations)
        /\ metrics.success_count = Cardinality(Succeeded)
        /\ metrics.failure_count = Cardinality(Failed)
        /\ metrics.business_value = ValueOf(Succeeded)
        /\ Len(metrics.durations) = Cardinality(Succeeded)

C3_SingleThread == cfg.threads = 1 => C3_NoLostUpdate

\* ---- C4
\* What a run with one worker ends with: every task of the list counted once.
SequentialTotals(tasks) ==
    LET ok == {i \in DOMAIN tasks : Succeeds(tasks[i])} IN
    [task_count |-> Len(tasks),
     success_count |-> Cardinality(ok),
     failure_count |-> Len(tasks) - Cardinality(ok),
     business_value |-> Sum([i \in DOMAIN tasks |->
                               IF i \in ok THEN tasks[i].expected_value ELSE 0])]

Totals(m) ==
    [task_count |-> m.task_count, success_count |-> m.success_count,
     failure_count |-> m.failure_count, business_value |-> m.business_value]

\* C4: without a shutdown signal a run ends with the same task_count,
\* success_count, failure_count and business_value whatever the number of
\* threads and the interleaving: the totals of the run with one thread.
C4_WorkerCountIndependence ==
    Exited /\ Summarised /\ ~shutdown_event /\ ~raised =>
        Totals(metrics) = SequentialTotals(cfg.tasks)

C4_SingleThread == cfg.threads = 1 => C4_WorkerCountIndependence

\* ---- C5
\* C5: a process_task invocation on a task whose library resolves and whose
\* compute succeeds adds exactly 1 to task_count, 1 to success_count, the
\* task's expected_value to business_value and one sample to durations,
\* leaves failure_count unchanged, and returns (task.id, compute's result).
C5_SuccessDelta ==
    \A i \in DOMAIN futures :
        Succeeds(TaskOf(i)) =>
            /\ futures[i].pc \notin {"L116r", "L116w", "L117r", "L117w", "L119", "escape"}
            /\ futures[i].pc = "L114" /\ futures[i].alone =>
                 /\ metrics.task_count = futures[i].entry.task_count + 1
                 /\ metrics.success_count = futures[i].entry.success_count + 1
                 /\ metrics.business_value =
                        futures[i].entry.business_value + TaskOf(i).expected_value
                 /\ Len(metrics.durations) = Len(futures[i].entry.durations) + 1
                 /\ SubSeq(metrics.durations, 1, Len(futures[i].entry.durations))
                        = futures[i].entry.durations
                 /\ metrics.failure_count = futures[i].entry.failure_count
            /\ futures[i].state = "finished" =>
                 /\ ~futures[i].exception
                 /\ futures[i].result = <<TaskOf(i).id, compute(TaskOf(i))>>

\* an undisturbed successful invocation of a task worth more than 1 is about
\* to return, in a pool of two threads that has run another task before
C5_Witness ==
    \E i \in DOMAIN futures :
        /\ futures[i].pc = "L114" /\ futures[i].alone
        /\ Succeeds(TaskOf(i)) /\ TaskOf(i).expected_value > 1
        /\ futures[i].entry.task_count > 0

\* ---- C6
\* C6: when the task's library is not in the registry, or compute raises,
\* process_task raises nothing to the pool, adds exactly 1 to task_count and
\* 1 to failure_count, leaves success_count, business_value and durations
\* unchanged, and returns (task.id, None).
C6_FailureContained ==
    \A i \in DOMAIN futures :
        ~Succeeds(TaskOf(i)) =>
            /\ futures[i].pc \notin
                 {"L109r", "L109w", "L110r", "L110w", "L111", "L112r", "L112w", "L114", "escape"}
            /\ ~futures[i].exception
            /\ futures[i].pc = "L119" /\ futures[i].alone =>
                 /\ metrics.task_count = futures[i].entry.task_count + 1
                 /\ metrics.failure_count = futures[i].entry.failure_count + 1
                 /\ metrics.success_count = futures[i].entry.success_count
                 /\ metrics.business_value = futures[i].entry.business_value
                 /\ metrics.durations = futures[i].entry.durations
            /\ futures[i].state = "finished" =>
                 futures[i].result = <<TaskOf(i).id, None>>

\* both kinds of failing task have returned: a library that is not in the
\* registry, and a compute that raised
C6_Witness ==
    /\ \E i \in Invocations :
         TaskOf(i).lib_name \notin libs /\ futures[i].result = <<TaskOf(i).id, None>>
    /\ \E i \in Invocations :
         /\ TaskOf(i).lib_name \in libs /\ TaskOf(i).fail
         /\ futures[i].result = <<TaskOf(i).id, None>>

\* ---- C7
\* C7: after an exception raised while the submission loop advances the
\* stream, no further task is submitted, every submitted task is joined
\* before the summary, and the process ends with a non-zero exit status.
C7_StreamFailureFatal ==
    raised =>
        /\ pc \notin {"for", "check"}
        /\ (Len(summary) > 0 => \A i \in DOMAIN futures : futures[i].state = "finished")
        /\ (Exited => exit_code # 0)

\* the parts of C7 other than the exit status
C7_AbortsAndJoins ==
    raised =>
        /\ pc \notin {"for", "check"}
        /\ (Len(summary) > 0 => \A i \in DOMAIN futures : futures[i].state = "finished")

\* ---- C8
AfterJoin == pc \in {"except", "finally", "cleanup", "sysexit"} \/ Len(summary) > 0

\* C8: setting the shutdown flag never interrupts a running worker: every
\* task that started runs process_task to its return and counts itself
\* exactly once, and the summary is read only when no process_task
\* invocation is in progress.
C8_SummaryAfterJoin ==
    /\ \A i \in DOMAIN futures : futures[i].updates <= 1
    /\ AfterJoin =>
         \A i \in DOMAIN futures :
            /\ futures[i].state \in {"finished", "cancelled"}
            /\ futures[i].state = "finished" =>
                 futures[i].pc = "returned" /\ futures[i].updates = 1
            /\ futures[i].state = "cancelled" =>
                 futures[i].pc = "queued" /\ futures[i].updates = 0

\* the flag was set while an invocation was running and another was still
\* queued, and the summary has been logged
C8_Witness ==
    /\ Summarised
    /\ at_signal.busy
    /\ at_signal.submitted > 1

\* ---- C9
\* C9: cleanup() runs exactly once per process run, on every termination
\* path, before the process reports its status.
C9_CleanupOnce == Exited => cleanups = 1

\* ---- C10
\* C10: the closing summary line is logged exactly once on every path by
\* which the process ends (exhaustion, shutdown, fatal processing error,
\* configuration error, library resolution error).
C10_SummaryOnEveryPath == Exited => Len(summary) = 1

ConfigValid == check_unique_libraries_and_tasks(cfg.libraries, cfg.tasks)
LibrariesLoad == \A i \in DOMAIN cfg.libraries : load_precompiled_library(cfg.libraries[i])

\* C10 (amended): the summary line is logged exactly once on every path
\* that enters processing (exhaustion, shutdown, fatal processing error),
\* and not at all when the run ends on a configuration error or a library
\* resolution error.
C10_SummaryOncePerProcessingRun ==
    /\ Len(summary) <= 1
    /\ Exited => Len(summary) = IF ConfigValid /\ LibrariesLoad THEN 1 ELSE 0

\* the process has ended on the fatal path, with its one summary
C10_Witness == Exited /\ raised /\ Summarised

\* ---- C11
\* C11: a run of a batch with zero tasks and no shutdown signal does not
\* block in the wait on the empty list of futures, and ends with
\* task_count = 0, failure_count = 0 and exit status zero.
C11_EmptyBatch ==
    ConfigValid /\ LibrariesLoad /\ cfg.tasks = <<>> /\ ~raised =>
        /\ futures = <<>>
        /\ pc = "wait" => ENABLED Wait
        /\ Exited /\ ~shutdown_event =>
             /\ Summarised
             /\ summary[1].total = 0
             /\ summary[1].fail = 0
             /\ metrics.task_count = 0 /\ metrics.failure_count = 0
             /\ exit_code = 0

\* the run of an empty batch has gone through wait() and ended
C11_Witness ==
    /\ ConfigValid /\ LibrariesLoad /\ cfg.tasks = <<>>
    /\ Exited /\ ~shutdown_event /\ ~raised /\ exit_code = 0

\* ---- C12
\* C12: a call of GeneratorErrorHandler.__next__ with the shutdown flag set
\* signals end-of-sequence whatever remains in the generator, without
\* advancing the generator and without changing the metrics.
C12_ShutdownStopsStream ==
    [][ pc = "for" /\ pc' # "for" /\ shutdown_event =>
          /\ pc' = "wait"
          /\ gen_pos' = gen_pos
          /\ metrics' = metrics
          /\ raised' = raised ]_vars

\* the stream was ended by the flag with tasks still in the generator: every
\* task pulled was submitted, so the loop's own test did not end it
C12_Witness ==
    /\ pc = "wait" /\ shutdown_event
    /\ gen_pos = Len(futures)
    /\ gen_pos < Len(cfg.tasks)
    /\ gen_pos > 0

\* ---- C13
\* C13: when producing the next element raises, __next__ adds exactly 1 to
\* generator_errors (created at 0 when absent), changes nothing else in the
\* metrics and re-raises; the elements produced before were delivered
\* unchanged and in order; end-of-sequence is not counted as an error.
C13_GeneratorErrorCounted ==
    [][ pc = "for" /\ pc' # "for" =>
          /\ raised' =>
               /\ "generator_errors" \in DOMAIN metrics'
               /\ metrics'.generator_errors = GeneratorErrors(metrics) + 1
               /\ \A k \in DOMAIN metrics \ {"generator_errors"} : metrics'[k] = metrics[k]
               /\ pc' = "with_exit"
               /\ futures' = futures
               /\ \A i \in DOMAIN futures : futures[i].task = i
          /\ pc' = "check" => task' = gen_pos + 1 /\ metrics' = metrics /\ ~raised'
          /\ pc' = "wait" => metrics' = metrics /\ ~raised' ]_vars

\* the generator raised after it had produced two tasks, which were
\* submitted in order
C13_Witness ==
    /\ raised
    /\ metrics.generator_errors = 1
    /\ Len(futures) = 2
    /\ futures[1].task = 1 /\ futures[2].task = 2

\* ---- C14
HasDuplicates ==
    \/ \E i, j \in DOMAIN cfg.libraries : i # j /\ cfg.libraries[i] = cfg.libraries[j]
    \/ \E i, j \in DOMAIN cfg.tasks : i # j /\ cfg.tasks[i].id = cfg.tasks[j].id

\* C14: a configuration with two libraries of the same name or two tasks of
\* the same id fails validation, and main() then ends before any task runs:
\* nothing is submitted or counted, no summary is logged, and the exit
\* status is non-zero.
C14_DuplicatesAreFatal ==
    HasDuplicates =>
        /\ ~check_unique_libraries_and_tasks(cfg.libraries, cfg.tasks)
        /\ pc \in {"parse", "atexit", "exited"}
        /\ futures = <<>>
        /\ metrics = NewMetrics
        /\ summary = <<>>
        /\ pc # "parse" => exit_code = 1

\* a run on two tasks of the same id (and distinct libraries) has ended
C14_Witness ==
    /\ Exited /\ exit_code = 1
    /\ Cardinality(Range(cfg.libraries)) = Len(cfg.libraries)
    /\ Len(cfg.tasks) = 2 /\ cfg.tasks[1].id = cfg.tasks[2].id

\* ---- C15
SomeLibraryFails == \E i \in DOMAIN cfg.libraries : cfg.libraries[i] \notin Importable

\* C15: when the import of one configured library fails, the run ends before
\* the pool exists: the registry is never built, no task is submitted or
\* executed, and the exit status is non-zero.
C15_ResolutionFailClosed ==
    ConfigValid /\ SomeLibraryFails =>
        /\ pc \in {"parse", "load", "atexit", "exited"}
        /\ libs = {}
        /\ futures = <<>>
        /\ metrics = NewMetrics
        /\ pc \in {"atexit", "exited"} => exit_code = 1

\* a run with tasks to do, one good library and one that does not import
\* has ended
C15_Witness ==
    /\ Exited /\ exit_code = 1
    /\ ConfigValid /\ SomeLibraryFails
    /\ \E i \in DOMAIN cfg.libraries : cfg.libraries[i] \in Importable
    /\ Len(cfg.tasks) > 0

\* ---- C16
\* C16: signal_handler leaves the flag set; a signal that arrives when the
\* flag is already set changes nothing of the run; no step clears the flag.
C16_ShutdownOneWay ==
    [][ /\ shutdown_event => shutdown_event'
        /\ signal_handler =>
             /\ shutdown_event'
             /\ shutdown_event =>
                  UNCHANGED <<appVars, devVars, cfg, shutdown_event, mainVars, metrics, futures>>
                  /\ at_signal'.submitted = at_signal.submitted ]_vars

\* a second signal has arrived with the flag set
C16_Witness == shutdown_event /\ at_signal.again

\* ---- C17
\* the scenario's run went through: all three tasks were submitted and the
\* summary was logged
ScenarioRan(tasks) ==
    /\ cfg.libraries = <<"echo">> /\ cfg.tasks = tasks
    /\ Exited /\ Summarised /\ Len(futures) = 3

\* the scenario with t1 and t2 naming the library echo
NamedScenarioTasks ==
    << TaskConfig(1, 1, [lib_name |-> "echo", fail |-> FALSE]),
       TaskConfig(2, 2, [lib_name |-> "echo", fail |-> FALSE]),
       TaskConfig(3, 3, [lib_name |-> "missing", fail |-> FALSE]) >>

Outcomes ==
    {i \in DOMAIN futures :
        /\ futures[i].state = "finished" /\ ~futures[i].exception
        /\ \E v \in {None} \cup 1..MaxTasks : futures[i].result = <<TaskOf(i).id, v>>}

Cancelled == {i \in DOMAIN futures : futures[i].state = "cancelled"}

\* C18: when the summary is logged, the outcomes produced plus the futures
\* cancelled are all the futures submitted, also when some tasks failed: a
\* failed task keeps no other submitted task from returning its outcome.
C18_OutcomesPlusCancelled ==
    Summarised =>
        /\ Cardinality(Outcomes) + Cardinality(Cancelled) = Len(futures)
        /\ Outcomes \cap Cancelled = {}
        /\ \A i \in Cancelled : futures[i].updates = 0

\* the summary of a run whose first task failed and whose later tasks
\* succeeded
C18_Witness ==
    /\ Summarised /\ Len(futures) = 3
    /\ 1 \in Failed /\ 2 \in Succeeded /\ 3 \in Succeeded
    /\ Outcomes = {1, 2, 3}

\* ---- C19
\* C19: once the flag is set while main() is in wait(), wait() returns
\* without waiting for the futures that are left; the futures that have not
\* started are then cancelled, never execute process_task and are counted
\* neither as success nor as failure.
C19_ShutdownEndsWait ==
    /\ pc = "wait" /\ shutdown_event => ENABLED Wait
    /\ pc \in {"with_exit", "finally"} /\ shutdown_event /\ at_signal.queued > 0 =>
         \A i \in DOMAIN futures : futures[i].state # "pending"
    /\ \A i \in Cancelled : futures[i].updates = 0 /\ futures[i].pc = "queued"

\* what the code does instead: wait() returns when every future is done, so
\* no future is left to cancel, and the futures that were pending when the
\* signal arrived in wait() have all run and are in the summary.
C19_NothingCancelled ==
    /\ Cancelled = {}
    /\ pc = "after_wait" => not_done = {}
    /\ Summarised /\ at_signal.queued > 0 =>
         \A i \in DOMAIN futures : futures[i].state = "finished" /\ futures[i].updates > 0

\* the summary of a run that was signalled in wait() with a future pending
C19_SignalledWithPending ==
    Summarised /\ at_signal.queued > 0 /\ at_signal.submitted = Len(futures)

\* ---- C20
\* the for loop of lines 169-172 is over
LoopLeft == pc \notin {"parse", "load", "for", "check"}

\* a step that submits nothing: the futures are those of before, each for
\* the same task
SameSubmissions ==
    /\ Len(futures') = Len(futures)
    /\ \A i \in DOMAIN futures : futures'[i].task = futures[i].task

\* C20: the loop body that finds the flag set leaves the loop without
\* submitting the task it holds, and once the loop is left no task is pulled
\* from the stream and no future is added.
C20_NoSubmissionAfterCheck ==
    [][ /\ pc = "check" /\ shutdown_event =>
             /\ pc' \in {"check", "wait"}
             /\ SameSubmissions
             /\ gen_pos' = gen_pos
        /\ LoopLeft =>
             /\ LoopLeft'
             /\ SameSubmissions
             /\ gen_pos' = gen_pos ]_vars

\* a run has ended whose loop pulled a task, found the flag set and left
\* with tasks still in the stream
C20_Witness ==
    /\ Exited /\ shutdown_event /\ ~raised
    /\ gen_pos = Len(futures) + 1
    /\ gen_pos < Len(cfg.tasks)
    /\ Len(futures) > 0

\* ---- C21
\* C21: at every moment the number of process_task invocations in execution
\* is at most cfg.threads, however many tasks have been submitted.
C21_BoundedConcurrency ==
    Cardinality(Running) <= cfg.threads

\* every thread of a pool of two is in process_task and a third task waits
C21_Witness ==
    /\ cfg.threads = 2 /\ Cardinality(Running) = 2
    /\ \E i \in DOMAIN futures : futures[i].state = "pending"

\* ---- C22
Pending == {i \in DOMAIN futures : futures[i].state = "pending"}

\* C22: a task is submitted only when a pool thread is free, so the tasks
\* submitted and not yet started are never more than the free threads.
C22_Backpressure ==
    Cardinality(Pending) <= cfg.threads - Cardinality(Running)

\* what the code does instead: submit() queues the task whatever the pool
\* does, so every task of the list can be pending at once.
C22_QueueUnbounded ==
    /\ pc = "wait" /\ Len(cfg.tasks) = MaxTasks /\ cfg.threads = 1
    /\ Cardinality(Pending) = MaxTasks

\* ---- C23
\* every submitted task has returned its outcome or was cancelled
AllSettled ==
    \A i \in DOMAIN futures : i \in Outcomes \/ i \in Cancelled

\* C23: every run ends, and a run that reaches the task loop (its
\* configuration is valid and its libraries load) ends with
\* its summary logged and every submitted task either returned or cancelled,
\* whether the stream is exhausted, a signal arrives at any moment, or the
\* stream raises.
C23_Termination ==
    <>(/\ Exited
       /\ ConfigValid /\ LibrariesLoad => Summarised /\ AllSettled)

\* a run that was signalled with a task running and one pending has ended
C23_Witness ==
    /\ Exited /\ Summarised /\ AllSettled
    /\ shutdown_event /\ at_signal.busy /\ at_signal.queued > 0

\* ---- C24
\* the average of the summary is sum(durations) / success_count, and 0 when
\* success_count is 0: the divisor is never 0
C24_Average ==
    Summarised =>
        /\ summary[1].avg_time[2] # 0
        /\ summary[1].avg_time =
             IF metrics.success_count = 0 THEN <<0, 1>>
             ELSE <<Sum(metrics.durations), metrics.success_count>>

\* C24: the summary's average is the sum of the duration samples divided by
\* success_count, 0 when success_count is 0; at the summary there are as many
\* duration samples as successes and task_count = success_count +
\* failure_count.
C24_SummaryConsistent ==
    /\ C24_Average
    /\ Summarised =>
         /\ Len(metrics.durations) = summary[1].succ
         /\ summary[1].total = summary[1].succ + summary[1].fail

C24_SingleThread == cfg.threads = 1 => C24_SummaryConsistent

\* a summary with more duration samples than successes
C24_LostSuccess ==
    Summarised /\ Len(metrics.durations) = 2 /\ summary[1].succ = 1

\* ---- C25
AllFailed(outcomes) == \A i \in DOMAIN outcomes : ~outcomes[i]

\* C25: a fetch call makes at most the configured number of attempts,
\* returns the value of its first successful attempt without another
\* attempt, raises RuntimeError exactly when every attempt failed, and never
\* returns without a value.
C25_RetryContract ==
    /\ app_pc = "version" => Len(attempts) <= VERSION_RETRY_COUNT
    /\ app_pc = "csv" => Len(attempts) <= CSV_RETRY_COUNT
    /\ ret.fn # NoValue =>
         /\ Len(ret.outcomes) <= ret.retry
         /\ ret.kind = "value" =>
              /\ ret.outcomes # <<>>
              /\ ret.outcomes[Len(ret.outcomes)]
              /\ AllFailed(SubSeq(ret.outcomes, 1, Len(ret.outcomes) - 1))
              /\ ret.value # NoValue
         /\ ret.kind = "RuntimeError" <=> AllFailed(ret.outcomes)
         /\ ret.kind # "None"

\* the claim holds of the calls made under a retry count of 1 or more
C25_WithRetries ==
    /\ VERSION_RETRY_COUNT >= 1 /\ CSV_RETRY_COUNT >= 1 => C25_RetryContract
    /\ ret.kind = "None" => ret.retry = 0

\* a fetch made no attempt and returned None
C25_ReturnedNone ==
    ret.kind = "None" /\ ret.outcomes = <<>> /\ ret.fn = "version" /\ app_pc = "lookup"

\* ---- C26
\* C26: when set_cached_csv(fname, version, csv_text) is over, the cache
\* holds one entry for fname, that of the given version with the given
\* text, and the entries of the other filenames are as they were.
C26_OneEntryPerFilename ==
    app_pc = "cached" =>
        /\ {k \in DOMAIN cache : k[2] = fname} = {Key(fname, version)}
        /\ cache[Key(fname, version)] = csv_text
        /\ \A k \in DOMAIN cache_before \cup DOMAIN cache :
             k[2] # fname =>
                 /\ k \in DOMAIN cache /\ k \in DOMAIN cache_before
                 /\ cache[k] = cache_before[k]

\* what the code does instead: the entries evicted are those of the given
\* version, whatever their filename; those of the other versions stay
C26_OneEntryPerVersion ==
    app_pc = "cached" =>
        /\ {k \in DOMAIN cache : k[1] = version} = {Key(fname, version)}
        /\ cache[Key(fname, version)] = csv_text
        /\ \A k \in DOMAIN cache_before \cup DOMAIN cache :
             k[1] # version =>
                 /\ k \in DOMAIN cache /\ k \in DOMAIN cache_before
                 /\ cache[k] = cache_before[k]

\* an older version of the file is still cached after the call
C26_OldVersionKept ==
    app_pc = "cached" /\ \E k \in DOMAIN cache : k[2] = fname /\ k[1] # version

\* the entry of another file is gone after the call
C26_OtherFileEvicted ==
    app_pc = "cached" /\ \E k \in DOMAIN cache_before : k[2] # fname /\ k \notin DOMAIN cache

\* ---- C27
\* a fetch of main() ends with the RuntimeError of its last attempt
FetchFails ==
    /\ app_pc \in {"version", "csv"}
    /\ app_pc' # app_pc
    /\ ret'.kind = "RuntimeError"

\* C27: when a fetch fails after all its retries, main() caches nothing for
\* the request and goes on with the next prompt.
C27_SurvivesUpstreamFailure ==
    [][ FetchFails => app_pc' = "prompt" /\ cache' = cache ]_vars

\* what the code does instead: nothing is cached, and main() ends
C27_EndsOnUpstreamFailure ==
    [][ FetchFails => app_pc' = "crashed" /\ cache' = cache ]_vars

\* main() has ended on a failed CSV fetch, after an earlier request was served
C27_Crashed ==
    app_pc = "crashed" /\ ret.kind = "RuntimeError" /\ ret.fn = "csv" /\ cache # EmptyCache

\* ---- C28
\* the tests, counted from 0, that row i of the mask has False
FailedTests(i) == {j \in 0..(mask.shape[2] - 1) : ~mask.rows[i][j + 1]}

\* C28: for every row of the mask compute_first_failure returns the smallest
\* test index whose entry is False with that test's name, and -1 with no name
\* exactly when every entry of the row is True, also when there are no tests.
C28_FirstFailure ==
    first_failure.done =>
        /\ Len(first_failure.indices) = mask.shape[1]
        /\ Len(first_failure.names) = mask.shape[1]
        /\ \A i \in 1..mask.shape[1] :
             /\ first_failure.indices[i] = -1 <=> FailedTests(i) = {}
             /\ first_failure.names[i] = NoValue <=> FailedTests(i) = {}
             /\ FailedTests(i) # {} =>
                  /\ first_failure.indices[i] \in FailedTests(i)
                  /\ \A j \in FailedTests(i) : first_failure.indices[i] <= j
                  /\ first_failure.names[i] = test_names[first_failure.indices[i] + 1]

\* the result for a mask whose first row fails its second and third test and
\* whose second row fails none
C28_Witness ==
    /\ first_failure.done
    /\ mask.shape = <<2, 3>>
    /\ FailedTests(1) = {1, 2} /\ FailedTests(2) = {}
    /\ first_failure.indices = <<1, -1>>
    /\ first_failure.names = <<"b", NoValue>>

====
